---------------------------- MODULE Spec2Model ----------------------------
(***************************************************************************)
(* Model of src/main.py: the FastAPI application with POST /api/chat       *)
(* (chat_completion) and GET /health (health_check).                       *)
(*                                                                         *)
(* The module-level code (environment reading, validation of the required  *)
(* variables, construction of the Azure OpenAI client) is the Startup      *)
(* action.  chat_completion is split at its only suspension point, the     *)
(* await of openai_client.chat.completions.create: the part before it is   *)
(* the action chat_completion, the part after it is CompletionReturns      *)
(* (the call returned a completion) or CompletionRaises (it raised).       *)
(*                                                                         *)
(* The "[cite: NN]" marks of the source are read as the annotation residue *)
(* they are in its comments, not as subscript expressions.                 *)
(***************************************************************************)
EXTENDS Integers, Sequences, FiniteSets, TLC

\* ------------------------------------------------------------------ bounds

\* Longest messages list of a request.
MaxMsgs == 3
\* Longest citations list of a completion's context.
MaxCitations == 2
\* Most choices of a completion.
MaxChoices == 2

\* ------------------------------------------------------------ value domains

\* Python's None, and an attribute the object does not have.
NoneVal == "<None>"
Absent == "<absent>"

SeqsUpTo(S, n) == UNION {[1..k -> S] : k \in 0..n}

\* The keys of required_env_vars, in the dict's insertion order.
RequiredVarNames ==
    << "AZURE_OPENAI_ENDPOINT", "AZURE_OPENAI_GPT_DEPLOYMENT",
       "AZURE_OPENAI_EMBEDDING_DEPLOYMENT", "AZURE_SEARCH_ENDPOINT",
       "AZURE_SEARCH_INDEX_NAME" >>

RequiredVars == {RequiredVarNames[i] : i \in DOMAIN RequiredVarNames}

\* What os.getenv gives for a variable: None (unset), "" (set, empty) or a value.
EnvValues == {NoneVal, "", "value"}

\* ChatMessage: role and content, both str (content may be empty).
ChatMessage ==
    [role : {"user"}, content : {"", "q1", "q2"}]
        \cup [role : {"assistant", "system"}, content : {"ctx"}]

\* ChatRequest.messages
Requests == SeqsUpTo(ChatMessage, MaxMsgs)

\* One record of context["citations"]: a dict (whose "content" and "title"
\* keys may be missing, .get then gives None) or something that is no dict.
CitationData ==
    [is_dict : {TRUE}, content : {NoneVal, "c1"}, title : {NoneVal, "t1"}]
        \cup [is_dict : {FALSE}, content : {NoneVal}, title : {NoneVal}]

\* response_message.context: no such attribute, None, a dict without the
\* "citations" key, or a dict with a citations list (possibly empty).
NoCitations == << >>

Contexts ==
    [kind : {"absent", "None", "no_citations_key"}, citations : {NoCitations}]
        \cup [kind : {"citations"}, citations : SeqsUpTo(CitationData, MaxCitations)]

\* completion.choices[i].message
ChoiceMessages == [content : {NoneVal, "answer"}, context : Contexts]

\* The choices after the first are never read by the handler.
LaterChoice == [content |-> "other", context |-> [kind |-> "None", citations |-> NoCitations]]

\* completion.choices: empty, or a first choice followed by later ones.
ChoiceLists ==
    { << >> } \cup
    { <<m>> \o rest : m \in ChoiceMessages,
                     rest \in SeqsUpTo({LaterChoice}, MaxChoices - 1) }

\* An exception as the except clause sees it: its str(), and the attributes
\* the handler probes with hasattr.  body is absent, None, or a mapping with
\* or without a "message" key.
UpstreamStatus == {401, 429, 503}

Exceptions ==
    [ str : {"e_str"},
      has_status : {TRUE},
      status_code : UpstreamStatus,
      message : {Absent, "e_message"},
      body : {Absent, NoneVal, "dict_without_message", "dict_with_message"},
      response_text : {Absent, "e_response_text"} ]
    \cup
    [ str : {"e_str"},
      has_status : {FALSE},
      status_code : {0},
      message : {Absent, "e_message"},
      body : {Absent, NoneVal, "dict_without_message", "dict_with_message"},
      response_text : {Absent, "e_response_text"} ]

\* e.body['message'] of a body that has the key.
BodyMessage == "e_body_message"

\* An exception raised by the handler's own code after the call returned
\* (IndexError, AttributeError, pydantic ValidationError): none of them has
\* status_code, message, body or response.
InternalError(text) ==
    [ str |-> text, has_status |-> FALSE, status_code |-> 0,
      message |-> Absent, body |-> Absent, response_text |-> Absent ]

NoException == InternalError("")

\* ------------------------------------------------------------------- state

VARIABLES
    phase,              \* "boot" before the module code ran, then "serving" or "failed"
    required_env_vars,  \* the dict of the five required variables
    missing_vars,       \* the sequence computed at startup
    error_logged,       \* whether startup logged the missing-variables error
    openai_client,      \* "client", or NoneVal when its construction failed
    pc,                 \* the request in progress: "idle", "awaiting", "done"
    endpoint,           \* which route the request in progress is on
    request,            \* its messages (POST /api/chat)
    calls,              \* the chat-completion calls issued for it, in order
    upstream,           \* what the awaited call produced
    response            \* the HTTP response

vars == << phase, required_env_vars, missing_vars, error_logged, openai_client,
           pc, endpoint, request, calls, upstream, response >>

NoUpstream == [kind |-> "none", choices |-> << >>, exc |-> NoException]

NoResponse ==
    [kind |-> "none", status |-> 0, role |-> "", content |-> "",
     citations |-> << >>, detail |-> "", openai_client_initialized |-> FALSE]


\* ------------------------------------------------------- startup (module code)

\* missing_vars = [var for var, val in required_env_vars.items() if val is None]
MissingVars(envv) == SelectSeq(RequiredVarNames, LAMBDA v : envv[v] = NoneVal)

\* What the module code does once missing_vars is known: it logs and goes on
\* (the raise EnvironmentError is commented out).
StartupPhase(missing) == "serving"

\* The try/except around the client's construction: the client, or None when
\* DefaultAzureCredential, the token provider or AsyncAzureOpenAI raised.
ClientOutcomes == {"client", NoneVal}

Startup ==
    /\ phase = "boot"
    /\ missing_vars' = MissingVars(required_env_vars)
    /\ error_logged' = (missing_vars' # << >>)
    /\ phase' = StartupPhase(missing_vars')
    /\ \E c \in ClientOutcomes :
          openai_client' = IF phase' = "serving" THEN c ELSE NoneVal
    /\ UNCHANGED << required_env_vars, pc, endpoint, request, calls, upstream, response >>

\* ------------------------------------------------------------ pure helpers

\* ', '.join(seq)
RECURSIVE Join(_)
Join(seq) ==
    IF seq = << >> THEN ""
    ELSE IF Len(seq) = 1 THEN seq[1]
    ELSE seq[1] \o ", " \o Join(Tail(seq))

\* raise HTTPException(status_code=..., detail=...)
HTTPException(status_code, detail) ==
    [kind |-> "error", status |-> status_code, role |-> "", content |-> "",
     citations |-> << >>, detail |-> detail, openai_client_initialized |-> FALSE]

\* all(required_env_vars.values()): every value is truthy (neither None nor "").
AllConfigured(envv) == \A v \in RequiredVars : envv[v] \notin {NoneVal, ""}

\* LastUserMessage without the role test: the content of the last message.
LastMessageContent(msgs) ==
    IF msgs = << >> THEN NoneVal ELSE msgs[Len(msgs)].content

\* next((msg.content for msg in reversed(request.messages) if msg.role == "user"), None)
RECURSIVE LastUserMessage(_)
LastUserMessage(msgs) ==
    IF msgs = << >> THEN NoneVal
    ELSE IF msgs[Len(msgs)].role = "user" THEN msgs[Len(msgs)].content
    ELSE LastUserMessage(SubSeq(msgs, 1, Len(msgs) - 1))

\* Falsy as "user_message is None": the empty string passes.
FalsyNoneOnly(user_message) == user_message = NoneVal

\* "if not user_message": None and the empty string are both falsy.
Falsy(user_message) == user_message \in {NoneVal, ""}

\* MessagesForApi as the commented-out line of the source: the whole history.
MessagesForApiWholeHistory(msgs) ==
    [i \in DOMAIN msgs |-> [role |-> msgs[i].role, content |-> msgs[i].content]]

\* messages_for_api
MessagesForApi(msgs) == << [role |-> "user", content |-> LastUserMessage(msgs)] >>

\* EntryChecks with the client check moved after the other two.
EntryChecksClientLast(client, envv, missing, msgs) ==
    IF ~AllConfigured(envv)
    THEN HTTPException(500, "Configuração incompleta do servidor. Variáveis faltando: "
                             \o Join(missing))
    ELSE IF Falsy(LastUserMessage(msgs))
    THEN HTTPException(400, "Nenhuma mensagem de usuário encontrada no request.")
    ELSE IF client = NoneVal
    THEN HTTPException(503, "Serviço OpenAI não está disponível devido a erro de configuração.")
    ELSE NoResponse

\* The checks of chat_completion before the call, in the code's order: the
\* HTTPException raised, or NoResponse when the request passes them all.
EntryChecks(client, envv, missing, msgs) ==
    IF client = NoneVal
    THEN HTTPException(503, "Serviço OpenAI não está disponível devido a erro de configuração.")
    ELSE IF ~AllConfigured(envv)
    THEN HTTPException(500, "Configuração incompleta do servidor. Variáveis faltando: "
                             \o Join(missing))
    ELSE IF Falsy(LastUserMessage(msgs))
    THEN HTTPException(400, "Nenhuma mensagem de usuário encontrada no request.")
    ELSE NoResponse

\* The chat-completion call: openai_client.chat.completions.create(...)
CreateCall(envv, msgs) ==
    [model |-> envv["AZURE_OPENAI_GPT_DEPLOYMENT"], messages |-> MessagesForApi(msgs),
     stream |-> FALSE]

\* ------------------------------------------- POST /api/chat, up to the await

chat_completion ==
    /\ phase = "serving"
    /\ pc = "idle"
    /\ \E msgs \in Requests :
          LET raised == EntryChecks(openai_client, required_env_vars, missing_vars, msgs)
          IN  /\ request' = msgs
              /\ endpoint' = "/api/chat"
              /\ IF raised.kind = "error"
                 THEN /\ response' = raised
                      /\ pc' = "done"
                      /\ calls' = calls
                 ELSE /\ response' = response
                      /\ pc' = "awaiting"
                      /\ calls' = Append(calls, CreateCall(required_env_vars, msgs))
    /\ UNCHANGED << phase, required_env_vars, missing_vars, error_logged,
                    openai_client, upstream >>

\* --------------------------------------- POST /api/chat, after the await

\* The result of a step of the try block: a value, or the exception raised.
Returned(value) == [raised |-> FALSE, value |-> value, exc |-> NoException]
Raised(exc) == [raised |-> TRUE, value |-> << >>, exc |-> exc]

\* Citation that skips a malformed record instead of raising.
CitationSkippingMalformed(cit_data) ==
    IF ~cit_data.is_dict \/ cit_data.content = NoneVal
    THEN Returned(<< >>)
    ELSE Returned(<< [content |-> cit_data.content, title |-> cit_data.title] >>)

\* Citation(content=cit_data.get("content"), title=cit_data.get("title"), ...):
\* .get on something that is no dict raises AttributeError, and the model's
\* content: str refuses None (pydantic ValidationError).
Citation(cit_data) ==
    IF ~cit_data.is_dict
    THEN Raised(InternalError("object has no attribute 'get'"))
    ELSE IF cit_data.content = NoneVal
    THEN Raised(InternalError("1 validation error for Citation"))
    ELSE Returned(<< [content |-> cit_data.content, title |-> cit_data.title] >>)

\* for cit_data in response_message.context["citations"]: citations_data.append(...)
RECURSIVE AppendCitations(_, _)
AppendCitations(citations_data, todo) ==
    IF todo = << >> THEN Returned(citations_data)
    ELSE LET c == Citation(Head(todo))
         IN  IF c.raised THEN c
             ELSE AppendCitations(citations_data \o c.value, Tail(todo))

\* citations_data of the try block: [] unless the context is truthy and has a
\* truthy "citations"; reading .context of a message without it raises.
CitationsData(response_message) ==
    IF response_message.context.kind = "absent"
    THEN Raised(InternalError("object has no attribute 'context'"))
    ELSE IF response_message.context.kind \in {"None", "no_citations_key"}
    THEN Returned(<< >>)
    ELSE AppendCitations(<< >>, response_message.context.citations)

\* ChatResponse(message=ChatCompletionMessage(role="assistant", content=..., citations=...)):
\* content: str refuses None.
ChatResponse(content, citations_data) ==
    IF content = NoneVal
    THEN Raised(InternalError("1 validation error for ChatCompletionMessage"))
    ELSE Returned([kind |-> "ok", status |-> 200, role |-> "assistant",
                   content |-> content, citations |-> citations_data,
                   detail |-> "", openai_client_initialized |-> FALSE])

\* The try block after the call returned: completion.choices[0] (IndexError on
\* an empty list), the citations, the response.
TryBlock(choices) ==
    IF choices = << >>
    THEN Raised(InternalError("list index out of range"))
    ELSE LET response_message == choices[1]
             citations_data == CitationsData(response_message)
         IN  IF citations_data.raised THEN citations_data
             ELSE ChatResponse(response_message.content, citations_data.value)

\* ErrorStatus that ignores the exception's status_code.
ErrorStatusAlways500(e) == 500

\* status_code of the except clause
ErrorStatus(e) == IF e.has_status THEN e.status_code ELSE 500

\* ErrorDetail that hides the failure behind a fixed text.
ErrorDetailGeneric(e) == "erro interno"

\* error_detail of the except clause
ErrorDetail(e) ==
    IF ~e.has_status THEN e.str
    ELSE IF e.message # Absent THEN e.message
    ELSE IF e.body = "dict_with_message" THEN BodyMessage
    ELSE IF e.response_text # Absent THEN e.response_text
    ELSE e.str

\* except Exception as e: ... raise HTTPException(status_code, detail=f"...: {error_detail}")
ExceptClause(e) ==
    HTTPException(ErrorStatus(e), "Erro ao processar a requisição de chat: " \o ErrorDetail(e))

\* The awaited call returned a completion.
CompletionReturns ==
    /\ pc = "awaiting"
    /\ \E choices \in ChoiceLists :
          LET result == TryBlock(choices)
          IN  /\ upstream' = [kind |-> "completion", choices |-> choices, exc |-> NoException]
              /\ response' = IF result.raised THEN ExceptClause(result.exc) ELSE result.value
    /\ pc' = "done"
    /\ UNCHANGED << phase, required_env_vars, missing_vars, error_logged,
                    openai_client, endpoint, request, calls >>

\* CompletionRaises with one retry of the call before giving up.
CompletionRaisesRetried ==
    /\ pc = "awaiting"
    /\ \E e \in Exceptions :
          IF Len(calls) < 2
          THEN /\ calls' = Append(calls, calls[1])
               /\ pc' = "awaiting"
               /\ UNCHANGED << upstream, response >>
          ELSE /\ upstream' = [kind |-> "raise", choices |-> << >>, exc |-> e]
               /\ response' = HTTPException(500, "Erro ao processar a requisição de chat: " \o e.str)
               /\ pc' = "done"
               /\ calls' = calls
    /\ UNCHANGED << phase, required_env_vars, missing_vars, error_logged,
                    openai_client, endpoint, request >>

\* The awaited call raised.
CompletionRaises ==
    /\ pc = "awaiting"
    /\ \E e \in Exceptions :
          /\ upstream' = [kind |-> "raise", choices |-> << >>, exc |-> e]
          /\ response' = ExceptClause(e)
    /\ pc' = "done"
    /\ UNCHANGED << phase, required_env_vars, missing_vars, error_logged,
                    openai_client, endpoint, request, calls >>

\* ------------------------------------------------------------- GET /health

health_check ==
    /\ phase = "serving"
    /\ pc = "idle"
    /\ endpoint' = "/health"
    /\ response' = [kind |-> "ok", status |-> 200, role |-> "", content |-> "ok",
                    citations |-> << >>, detail |-> "",
                    openai_client_initialized |-> (openai_client # NoneVal)]
    /\ pc' = "done"
    /\ UNCHANGED << phase, required_env_vars, missing_vars, error_logged,
                    openai_client, request, calls, upstream >>

\* The response is sent; nothing of the request is kept.
ResponseSent ==
    /\ pc = "done"
    /\ pc' = "idle"
    /\ endpoint' = ""
    /\ request' = << >>
    /\ calls' = << >>
    /\ upstream' = NoUpstream
    /\ response' = NoResponse
    /\ UNCHANGED << phase, required_env_vars, missing_vars, error_logged, openai_client >>

\* ------------------------------------------------------------ specification

Init ==
    /\ phase = "boot"
    /\ required_env_vars \in [RequiredVars -> EnvValues]
    /\ missing_vars = << >>
    /\ error_logged = FALSE
    /\ openai_client = NoneVal
    /\ pc = "idle"
    /\ endpoint = ""
    /\ request = << >>
    /\ calls = << >>
    /\ upstream = NoUpstream
    /\ response = NoResponse

Next ==
    \/ Startup
    \/ chat_completion
    \/ CompletionReturns
    \/ CompletionRaises
    \/ health_check
    \/ ResponseSent

Spec == Init /\ [][Next]_vars

\* ------------------------------------------------- vocabulary of the claims

\* A POST /api/chat request is in progress or answered.
ChatStarted == endpoint = "/api/chat" /\ pc \in {"awaiting", "done"}
ChatDone == endpoint = "/api/chat" /\ pc = "done"

ClientInitialized == openai_client # NoneVal

\* Every required variable is set to a non-empty value.
ConfigComplete ==
    \A i \in DOMAIN RequiredVarNames :
        /\ required_env_vars[RequiredVarNames[i]] # NoneVal
        /\ required_env_vars[RequiredVarNames[i]] # ""

UserPositions(msgs) == {i \in DOMAIN msgs : msgs[i].role = "user"}

HasUserMessage(msgs) == UserPositions(msgs) # {}

LastUserPosition(msgs) ==
    CHOOSE i \in UserPositions(msgs) : \A j \in UserPositions(msgs) : j <= i

\* The request's last user-role message exists and has non-empty content.
LastUserNonEmpty(msgs) ==
    /\ HasUserMessage(msgs)
    /\ msgs[LastUserPosition(msgs)].content # ""

IsError(r) == r.kind = "error" /\ r.status >= 400 /\ r.content = "" /\ r.citations = << >>

CallFailed == ChatDone /\ upstream.kind = "raise"

DetailPrefix == "Erro ao processar a requisição de chat: "

\* The messages an exception carries.
FailureMessages(e) ==
    {e.str}
        \cup (IF e.message # Absent THEN {e.message} ELSE {})
        \cup (IF e.body = "dict_with_message" THEN {"e_body_message"} ELSE {})
        \cup (IF e.response_text # Absent THEN {e.response_text} ELSE {})

\* ------------------------------------------------------------------ claims

\* C1: when the chat-completion service returns a completion whose choices
\* list is empty, POST /api/chat returns a normal response whose answer is the
\* placeholder "No response received from the model.".
C1_EmptyChoicesGivePlaceholder ==
    (ChatDone /\ upstream.kind = "completion" /\ upstream.choices = << >>)
        => /\ response.kind = "ok"
           /\ response.content = "No response received from the model."

\* C2 (as stated): every failure of the chat-completion call is answered with
\* a status of the 500 class and a detail that contains the failure's message.
C2_EveryFailureIs5xx ==
    CallFailed
        => /\ response.kind = "error"
           /\ response.status \in 500..599
           /\ response.detail \in {DetailPrefix \o m : m \in FailureMessages(upstream.exc)}

\* C2 (amended): every failure of the chat-completion call is answered with an
\* error response whose detail contains a message of the failure; its status
\* is of the 500 class unless the exception carries a status_code outside that
\* class, which is then the status of the response.
C2_EveryFailureIsAnError ==
    CallFailed
        => /\ IsError(response)
           /\ \/ response.status \in 500..599
              \/ /\ upstream.exc.has_status
                 /\ response.status = upstream.exc.status_code
           /\ response.detail \in {DetailPrefix \o m : m \in FailureMessages(upstream.exc)}

C2_Witness ==
    /\ CallFailed
    /\ upstream.exc.has_status
    /\ upstream.exc.status_code = 401
    /\ response.status = 401

\* C3: with the client initialized and the configuration complete, a request
\* without any user-role message is rejected with 400 and no chat-completion
\* call is issued for it.
C3_NoUserMessageIs400 ==
    (ChatStarted /\ ClientInitialized /\ ConfigComplete /\ ~HasUserMessage(request))
        => /\ pc = "done"
           /\ response.kind = "error"
           /\ response.status = 400
           /\ calls = << >>

C3_Witness ==
    /\ ChatDone /\ ClientInitialized /\ ConfigComplete
    /\ request # << >>
    /\ ~HasUserMessage(request)
    /\ response.status = 400

\* C4 (as stated): at most one call per request, exactly one when the client
\* is initialized, the configuration complete and the request carries a user
\* message; a failed call is not retried.
C4_OneCallPerUserMessage ==
    /\ Len(calls) <= 1
    /\ (ChatStarted /\ ClientInitialized /\ ConfigComplete /\ HasUserMessage(request))
          => Len(calls) = 1
    /\ CallFailed => (IsError(response) /\ Len(calls) = 1)

\* C4 (amended): at most one call per request, exactly one when the client is
\* initialized, the configuration complete and the request's last user-role
\* message has non-empty content; a failed call is not retried: the request
\* ends in an error with that one call.
C4_OneCallNoRetry ==
    /\ Len(calls) <= 1
    /\ (ChatStarted /\ ClientInitialized /\ ConfigComplete /\ LastUserNonEmpty(request))
          => Len(calls) = 1
    /\ CallFailed => (IsError(response) /\ Len(calls) = 1)

C4_Witness == CallFailed /\ IsError(response) /\ Len(calls) = 1

\* The first choice of the completion received, and what makes the handler
\* fail on it after the call returned.
FirstChoice == upstream.choices[1]

UpstreamCitations ==
    IF FirstChoice.context.kind = "citations" THEN FirstChoice.context.citations ELSE << >>

MalformedCitation(c) == ~c.is_dict \/ c.content = NoneVal

FailsAfterCall ==
    \/ upstream.choices = << >>
    \/ FirstChoice.content = NoneVal
    \/ FirstChoice.context.kind = "absent"
    \/ \E i \in DOMAIN UpstreamCitations : MalformedCitation(UpstreamCitations[i])

\* A complete response: role "assistant", the first choice's content, and one
\* citation for every citation record of the completion, in order.
IsComplete(r) ==
    /\ r.kind = "ok" /\ r.status = 200
    /\ r.role = "assistant"
    /\ r.content # NoneVal /\ r.content = FirstChoice.content
    /\ Len(r.citations) = Len(UpstreamCitations)
    /\ \A i \in DOMAIN r.citations :
          /\ r.citations[i].content = UpstreamCitations[i].content
          /\ r.citations[i].title = UpstreamCitations[i].title

\* C5: a POST /api/chat request ends either in a complete response or in an
\* error response, never both and never anything else; a failure after the
\* call returned (no first choice, a missing answer, a malformed citation
\* record) ends in an error, not in a response with a missing answer or a
\* truncated citations list.
C5_CompleteOrError ==
    ChatDone
        => /\ \/ IsError(response)
              \/ /\ upstream.kind = "completion"
                 /\ upstream.choices # << >>
                 /\ IsComplete(response)
           /\ ~(IsError(response) /\ response.kind = "ok")
           /\ (upstream.kind = "completion" /\ FailsAfterCall) => IsError(response)

C5_Witness ==
    /\ ChatDone
    /\ upstream.kind = "completion"
    /\ upstream.choices # << >>
    /\ Len(UpstreamCitations) = 2
    /\ ~MalformedCitation(UpstreamCitations[1])
    /\ MalformedCitation(UpstreamCitations[2])
    /\ IsError(response)

\* C6: when the failed call's exception carries a status code, the response
\* has that status and its detail is built from the exception's message, else
\* from its body's message, else from its response text; when it carries
\* none, the status is 500 and the detail is built from str(e).
C6_UpstreamStatusPreserved ==
    CallFailed
        => LET e == upstream.exc
           IN  /\ response.kind = "error"
               /\ e.has_status
                    => /\ response.status = e.status_code
                       /\ e.message # Absent
                            => response.detail = DetailPrefix \o e.message
                       /\ (e.message = Absent /\ e.body = "dict_with_message")
                            => response.detail = DetailPrefix \o "e_body_message"
                       /\ (e.message = Absent /\ e.body # "dict_with_message"
                                              /\ e.response_text # Absent)
                            => response.detail = DetailPrefix \o e.response_text
               /\ ~e.has_status
                    => /\ response.status = 500
                       /\ response.detail = DetailPrefix \o e.str

C6_Witness ==
    /\ CallFailed
    /\ upstream.exc.has_status
    /\ upstream.exc.status_code = 429
    /\ upstream.exc.message = Absent
    /\ upstream.exc.body = "dict_with_message"
    /\ response.status = 429
    /\ response.detail = DetailPrefix \o "e_body_message"

\* C7: when openai_client is None, every POST /api/chat request is answered
\* with 503 and no call is issued, whatever the messages and the
\* configuration: 503 comes before the 500 and the 400 checks.
C7_NoClientIs503 ==
    (ChatStarted /\ ~ClientInitialized)
        => /\ pc = "done"
           /\ response.kind = "error"
           /\ response.status = 503
           /\ calls = << >>

C7_Witness ==
    /\ ChatDone
    /\ ~ClientInitialized
    /\ ~ConfigComplete
    /\ ~HasUserMessage(request)
    /\ response.status = 503

\* C8: when a required variable is unset or empty at startup, startup does not
\* fail: the service logs the error and keeps serving, GET /health answers,
\* every POST /api/chat (client initialized) is answered with 500 without a
\* call, and a call is issued only when all five variables are set.
C8_LogsAndServesDegraded ==
    /\ (phase # "boot" /\ ~ConfigComplete)
          => /\ phase = "serving"
             /\ error_logged
             /\ pc = "idle" => ENABLED health_check
    /\ (endpoint = "/health" /\ pc = "done") => response.status = 200
    /\ (ChatStarted /\ ClientInitialized /\ ~ConfigComplete)
          => /\ pc = "done"
             /\ response.kind = "error"
             /\ response.status = 500
             /\ calls = << >>
    /\ calls # << >> => ConfigComplete

\* C8 (the part the code keeps): with a required variable unset or empty the
\* service still serves, GET /health answers, POST /api/chat (client
\* initialized) is answered with 500 without a call, and a call is issued only
\* when all five variables are set; the error is logged when a variable is unset.
C8_ServesDegraded ==
    /\ (phase # "boot" /\ ~ConfigComplete)
          => /\ phase = "serving"
             /\ error_logged = (\E v \in RequiredVars : required_env_vars[v] = NoneVal)
             /\ pc = "idle" => ENABLED health_check
    /\ (endpoint = "/health" /\ pc = "done") => response.status = 200
    /\ (ChatStarted /\ ClientInitialized /\ ~ConfigComplete)
          => /\ pc = "done"
             /\ response.kind = "error"
             /\ response.status = 500
             /\ calls = << >>
    /\ calls # << >> => ConfigComplete

\* C9: whenever a call is issued, its messages are exactly one message, of
\* role "user", whose content is that of the request's last user-role message.
C9_OnlyLastUserMessageSent ==
    \A i \in DOMAIN calls :
        /\ Len(calls[i].messages) = 1
        /\ calls[i].messages[1].role = "user"
        /\ HasUserMessage(request)
        /\ calls[i].messages[1].content = request[LastUserPosition(request)].content

C9_Witness ==
    /\ calls # << >>
    /\ Len(request) = 3
    /\ request[1].role = "user" /\ request[1].content = "q1"
    /\ request[2].role = "user" /\ request[2].content = "q2"
    /\ request[3].role = "assistant"
    /\ calls[1].messages = << [role |-> "user", content |-> "q2"] >>

\* C10 (as stated): the 400 error is returned only for requests without any
\* user-role message; a request with a user-role message of non-empty content,
\* in any position, proceeds to the chat-completion call.
C10_AnyUserMessagePasses ==
    /\ (ChatDone /\ response.status = 400) => ~HasUserMessage(request)
    /\ ( /\ ChatStarted /\ ClientInitialized /\ ConfigComplete
         /\ \E i \in UserPositions(request) : request[i].content # "" )
          => (calls # << >> /\ response.status # 400)

\* C10 (amended): with the client initialized and the configuration complete,
\* the 400 error is returned exactly for the requests whose last user-role
\* message is missing or has empty content; a request whose last user-role
\* message has non-empty content proceeds to the chat-completion call,
\* whatever its other messages are.
C10_LastUserMessageDecides ==
    /\ (ChatDone /\ response.status = 400) => ~LastUserNonEmpty(request)
    /\ (ChatStarted /\ ClientInitialized /\ ConfigComplete)
          => IF LastUserNonEmpty(request)
             THEN calls # << >> /\ response.status # 400
             ELSE calls = << >> /\ response.status = 400

C10_Witness ==
    /\ ChatDone /\ ClientInitialized /\ ConfigComplete
    /\ Len(request) = 2
    /\ request[1].role = "user" /\ request[1].content = "q1"
    /\ request[2].role = "user" /\ request[2].content = ""
    /\ response.status = 400
    /\ calls = << >>

=============================================================================
